---- MODULE Spec2Model ----
(***************************************************************************)
(* NoteProcessor (yarn-project/aztec-rpc/src/note_processor): decrypts the *)
(* encrypted logs of a batch of L2 blocks, stores the notes it could       *)
(* decrypt and the transactions they belong to, removes the notes whose    *)
(* nullifier a block of the batch reveals, and then advances               *)
(* syncedToBlock.  Every await of process() is one step of the model.      *)
(***************************************************************************)
EXTENDS Integers, Sequences, FiniteSets, TLC

\* ---------------------------------------------------------------- bounds
MaxCalls == 2          \* process() calls started in one behaviour
MaxBatch == 2          \* blocks (and log entries) handed to one call
MaxBlockNum == 2       \* block numbers are 1..MaxBlockNum
NumNotes == 2          \* distinct notes (and nullifiers) of the ledger
MaxTxs == 1            \* transactions per block
MaxFns == 1            \* function-log groups per transaction
MaxLogs == 1           \* encrypted logs per function-log group
MaxNullifiers == 1     \* newNullifiers per block
LeavesPerBlock == 4    \* leaves a block appends to the private data tree
MaxInFlight == 2       \* call slots of one NoteProcessor instance
BlockTxs == 2          \* transactions of a block with nested logs
BlockFns == 2          \* function-log groups of such a transaction
BlockLogs == 2         \* logs of such a function-log group
MaxBlockLogs == 3      \* logs of such a block, all transactions together
MaxBlockHeight == 2    \* blocks the AztecNode comes to hold

\* ------------------------------------------------------------ value sets
\* contractAddress: undefined of a TxDao (contract addresses are >= 1)
NoAddress == 0
BlockNums == 1..MaxBlockNum
NoteIds == 1..NumNotes
Nullifiers == NoteIds
\* An encrypted log: 0 is a log of another account (does not decrypt under
\* this key), k in NoteIds decrypts to note k, BadLog decrypts to a note
\* whose preimage the simulator rejects.
OtherLog == 0
BadLog == NumNotes + 1
Logs == 0..(NumNotes + 1)
ThisKey == "pk"
OtherKey == "pk2"
ThisAddress == "addr"
Slots == 1..MaxInFlight

SeqsUpTo(S, n) == UNION {[1..k -> S] : k \in 0..n}

Last(s) == s[Len(s)]

RECURSIVE Concat(_)
Concat(ss) == IF ss = <<>> THEN <<>> ELSE Head(ss) \o Concat(Tail(ss))

Range(s) == {s[i] : i \in 1..Len(s)}

Max(a, b) == IF a >= b THEN a ELSE b

\* ------------------------------------------------------------ the inputs
\* L2BlockL2Logs.txLogs: transactions -> function-log groups -> logs.
TxLogsSet == SeqsUpTo(SeqsUpTo(SeqsUpTo(Logs, MaxLogs), MaxFns), MaxTxs)

\* startPrivateDataTreeSnapshot.nextAvailableLeafIndex of block n.
DataStartOf(n) == (n - 1) * LeavesPerBlock

\* L2BlockContext as far as process() reads it: block.number, the start
\* leaf index, block.newNullifiers and, per transaction, whether
\* newContractData[0].contractAddress is non-zero.
BlockContext(n, nulls, deploys) ==
  [number |-> n,
   nextAvailableLeafIndex |-> DataStartOf(n),
   newNullifiers |-> nulls,
   deployments |-> deploys]

\* A block together with its logs; the block holds one transaction per
\* TxL2Logs entry (note_processor.ts:100).
BlockInputs(deployFlags) ==
  {[ctx |-> BlockContext(n, nulls, deploys), logs |-> txLogs] :
     n \in BlockNums, nulls \in SeqsUpTo(Nullifiers, MaxNullifiers),
     txLogs \in TxLogsSet, deploys \in SeqsUpTo(deployFlags, MaxTxs)}

AlignedBlockInputs(deployFlags) ==
  {b \in BlockInputs(deployFlags) : Len(b.ctx.deployments) = Len(b.logs)}

\* The (blocks, logs) argument pairs of process(): up to MaxBatch blocks
\* and up to MaxBatch log entries, of equal length or not.
BatchOf(pairs, nb, nl) ==
  [blocks |-> [i \in 1..(IF nb < Len(pairs) THEN nb ELSE Len(pairs)) |-> pairs[i].ctx],
   logs |-> [i \in 1..(IF nl < Len(pairs) THEN nl ELSE Len(pairs)) |-> pairs[i].logs]]

Batches(deployFlags) ==
  UNION {{BatchOf(pairs, nb, nl) :
            nb \in 0..MaxBatch, nl \in 0..MaxBatch} :
         pairs \in SeqsUpTo(AlignedBlockInputs(deployFlags), MaxBatch)}

\* Blocks with several transactions, function-log groups and logs, empty
\* ones included; every log is a log of another account or decrypts to a
\* well-formed note.
NestedTxLogsSet ==
  {txLogs \in SeqsUpTo(SeqsUpTo(SeqsUpTo({OtherLog} \cup NoteIds, BlockLogs),
                                BlockFns), BlockTxs) :
     Len(Concat([t \in 1..Len(txLogs) |-> Concat(txLogs[t])])) <= MaxBlockLogs}

NestedBlockInputs ==
  UNION {{[ctx |-> BlockContext(n, <<>>, deploys), logs |-> txLogs] :
            n \in BlockNums, deploys \in [1..Len(txLogs) -> BOOLEAN]} :
         txLogs \in NestedTxLogsSet}

\* The batches of one block with nested logs, and the batches of two blocks
\* of at most one log each; newContractData is zero or not.
NestedBatches ==
  {[blocks |-> <<b.ctx>>, logs |-> <<b.logs>>] : b \in NestedBlockInputs}
  \cup {[blocks |-> <<b.ctx, c.ctx>>, logs |-> <<b.logs, c.logs>>] :
          b, c \in {x \in AlignedBlockInputs(BOOLEAN) : x.ctx.newNullifiers = <<>>}}

\* ------------------------------------------------ external collaborators
\* NoteSpendingInfo.fromEncryptedBuffer(log, privateKey, curve): the note
\* of a log encrypted to this key, undefined (here <<>>) for any other log.
fromEncryptedBuffer(log) ==
  IF log = OtherLog THEN <<>>
  ELSE <<[contractAddress |-> log, storageSlot |-> 1, notePreimage |-> log]>>

\* simulator.computeNullifier throws on a malformed preimage.
NullifierThrows(noteSpendingInfo) == noteSpendingInfo.notePreimage = BadLog

\* siloNullifier(contractAddress, computeNullifier(...)): deterministic,
\* one nullifier per note.
computeSiloedNullifier(noteSpendingInfo) == noteSpendingInfo.notePreimage

\* Database.addNoteSpendingInfoBatch: inserting a stored note again does
\* not duplicate it.
addNoteSpendingInfoBatch(store, daos) ==
  [store EXCEPT !.notes = @ \cup Range(daos)]

\* Database.addTxs
addTxs(store, txDaos) == [store EXCEPT !.txs = @ \cup Range(txDaos)]

\* Database.removeNullifiedNoteSpendingInfo(nullifiers, publicKey)
NullifiedIn(store, nullifiers, publicKey) ==
  {n \in store.notes : n.publicKey = publicKey /\ n.nullifier \in Range(nullifiers)}

removeNullifiedNoteSpendingInfo(store, nullifiers, publicKey) ==
  [store EXCEPT !.notes = @ \ NullifiedIn(store, nullifiers, publicKey)]

\* A note another NoteProcessor sharing the database stored for its key.
ForeignNote ==
  [contractAddress |-> 1, storageSlot |-> 1, notePreimage |-> 1,
   nullifier |-> 1, index |-> 0, publicKey |-> OtherKey]

\* --------------------------------------- process(): the per-block stage
\* userPertainingTxIndices is a Set: add keeps the first insertion.
\* Mutant: an array, pushed to for every log that decrypts.
SetAddAlways(s, x) == Append(s, x)

SetAdd(s, x) == IF x \in Range(s) THEN s ELSE Append(s, x)

NoteSpendingInfoDao(info, dataStartIndexForBlock, logIndexWithinBlock) ==
  [contractAddress |-> info.contractAddress,
   storageSlot |-> info.storageSlot,
   notePreimage |-> info.notePreimage,
   nullifier |-> computeSiloedNullifier(info),
   index |-> dataStartIndexForBlock + logIndexWithinBlock,
   publicKey |-> ThisKey]

\* One pass of the innermost loop body (lines 105-116) for one log.
\* Mutant: only the logs that decrypt advance logIndexWithinBlock.
ScanLogCountingNotes(log, indexOfTxInABlock, dataStartIndexForBlock, acc) ==
  LET noteSpendingInfo == fromEncryptedBuffer(log)
      info == noteSpendingInfo[1]
  IN
  IF noteSpendingInfo = <<>>
    THEN acc
  ELSE IF NullifierThrows(info)
    THEN [acc EXCEPT !.userPertainingTxIndices = SetAdd(@, indexOfTxInABlock),
                     !.nullifierCalls = @ + 1,
                     !.threw = TRUE]
  ELSE [acc EXCEPT !.userPertainingTxIndices = SetAdd(@, indexOfTxInABlock),
                   !.nullifierCalls = @ + 1,
                   !.noteSpendingInfoDaos =
                      Append(@, NoteSpendingInfoDao(info, dataStartIndexForBlock,
                                                    acc.logIndexWithinBlock)),
                   !.logIndexWithinBlock = @ + 1]

ScanLog(log, indexOfTxInABlock, dataStartIndexForBlock, acc) ==
  LET noteSpendingInfo == fromEncryptedBuffer(log)
      info == noteSpendingInfo[1]
  IN
  IF noteSpendingInfo = <<>>
    THEN [acc EXCEPT !.logIndexWithinBlock = @ + 1]
  ELSE IF NullifierThrows(info)
    THEN [acc EXCEPT !.userPertainingTxIndices = SetAdd(@, indexOfTxInABlock),
                     !.nullifierCalls = @ + 1,
                     !.threw = TRUE]
  ELSE [acc EXCEPT !.userPertainingTxIndices = SetAdd(@, indexOfTxInABlock),
                   !.nullifierCalls = @ + 1,
                   !.noteSpendingInfoDaos =
                      Append(@, NoteSpendingInfoDao(info, dataStartIndexForBlock,
                                                    acc.logIndexWithinBlock)),
                   !.logIndexWithinBlock = @ + 1]

\* for (const logs of functionLogs.logs)
RECURSIVE ScanLogs(_, _, _, _, _)
ScanLogs(logs, k, indexOfTxInABlock, dataStartIndexForBlock, acc) ==
  IF k > Len(logs) \/ acc.threw THEN acc
  ELSE ScanLogs(logs, k + 1, indexOfTxInABlock, dataStartIndexForBlock,
                ScanLog(logs[k], indexOfTxInABlock, dataStartIndexForBlock, acc))

\* for (const functionLogs of txFunctionLogs)
RECURSIVE ScanFunctionLogs(_, _, _, _, _)
ScanFunctionLogs(txFunctionLogs, f, indexOfTxInABlock, dataStartIndexForBlock, acc) ==
  IF f > Len(txFunctionLogs) \/ acc.threw THEN acc
  ELSE ScanFunctionLogs(txFunctionLogs, f + 1, indexOfTxInABlock, dataStartIndexForBlock,
                        ScanLogs(txFunctionLogs[f], 1, indexOfTxInABlock,
                                 dataStartIndexForBlock, acc))

\* for (indexOfTxInABlock = 0; indexOfTxInABlock < txLogs.length; ...)
\* (transaction indices are 0-based as in the code)
RECURSIVE ScanTxLogs(_, _, _, _)
ScanTxLogs(txLogs, t, dataStartIndexForBlock, acc) ==
  IF t > Len(txLogs) \/ acc.threw THEN acc
  ELSE ScanTxLogs(txLogs, t + 1, dataStartIndexForBlock,
                  ScanFunctionLogs(txLogs[t], 1, t - 1, dataStartIndexForBlock, acc))

\* The body of the block loop after the private key arrived (lines 86-125).
DecryptBlock(blockContext, txLogs) ==
  ScanTxLogs(txLogs, 1, blockContext.nextAvailableLeafIndex,
             [logIndexWithinBlock |-> 0,
              userPertainingTxIndices |-> <<>>,
              noteSpendingInfoDaos |-> <<>>,
              nullifierCalls |-> 0,
              threw |-> FALSE])

ProcessedData(blockContext, scan) ==
  [blockContext |-> blockContext,
   userPertainingTxIndices |-> scan.userPertainingTxIndices,
   noteSpendingInfoDaos |-> scan.noteSpendingInfoDaos]

\* ------------------- processBlocksAndNoteSpendingInfo: the accumulators
getTxHash(blockContext, txIndex) == <<blockContext.number, txIndex>>

getBlockHash(blockContext) == <<blockContext.number>>

\* The TxDao built for userPertainingTxIndices[j] (lines 167-182; j is
\* 0-based in the code, 1-based here).
\* Mutant: the contract address is taken from the note for every transaction.
TxDaoAddressAlways(data, j) ==
  LET txIndex == data.userPertainingTxIndices[j]
      noteSpendingInfo == data.noteSpendingInfoDaos[j]
  IN [txHash |-> getTxHash(data.blockContext, txIndex),
      blockHash |-> getBlockHash(data.blockContext),
      blockNumber |-> data.blockContext.number,
      origin |-> ThisAddress,
      contractAddress |-> noteSpendingInfo.contractAddress,
      error |-> ""]

TxDao(data, j) ==
  LET txIndex == data.userPertainingTxIndices[j]
      isContractDeployment == data.blockContext.deployments[txIndex + 1]
      noteSpendingInfo == data.noteSpendingInfoDaos[j]
  IN [txHash |-> getTxHash(data.blockContext, txIndex),
      blockHash |-> getBlockHash(data.blockContext),
      blockNumber |-> data.blockContext.number,
      origin |-> ThisAddress,
      contractAddress |-> IF isContractDeployment
                            THEN noteSpendingInfo.contractAddress ELSE NoAddress,
      error |-> ""]

BlockTxDaos(data) ==
  [j \in 1..Len(data.userPertainingTxIndices) |-> TxDao(data, j)]

\* Mutant: txDaos is overwritten per block instead of pushed to.
TxDaosLastBlockOnly(blocksAndNoteSpendingInfo) ==
  BlockTxDaos(Last(blocksAndNoteSpendingInfo))

TxDaos(blocksAndNoteSpendingInfo) ==
  Concat([i \in 1..Len(blocksAndNoteSpendingInfo) |->
            BlockTxDaos(blocksAndNoteSpendingInfo[i])])

NoteSpendingInfoDaosBatch(blocksAndNoteSpendingInfo) ==
  Concat([i \in 1..Len(blocksAndNoteSpendingInfo) |->
            blocksAndNoteSpendingInfo[i].noteSpendingInfoDaos])

\* Mutant: the nullifier list is overwritten per block instead of concatenated.
NewNullifiersLastBlockOnly(blocksAndNoteSpendingInfo) ==
  Last(blocksAndNoteSpendingInfo).blockContext.newNullifiers

NewNullifiers(blocksAndNoteSpendingInfo) ==
  Concat([i \in 1..Len(blocksAndNoteSpendingInfo) |->
            blocksAndNoteSpendingInfo[i].blockContext.newNullifiers])

\* ------------------------------------------------------------- the state
VARIABLES
  syncedToBlock,   \* NoteProcessor.syncedToBlock
  db,              \* the Database: stored notes and stored txs (shared with other keys)
  call,            \* per slot: the frame of a process() call
  nCalls,          \* process() calls started so far
  observed,        \* nullifiers of the blocks successful calls processed
  inOrder,         \* no batch so far created a note whose nullifier was observed
  contiguous,      \* every successful batch so far continued the chain at the watermark
  lastOkBlock,     \* last block number of the most recent successful batch (0: none)
  blockHeight,     \* the block height of the AztecNode
  sync,            \* the frame of an isSynchronised() call
  attempt          \* the batch of the first process() call and the store it started from

vars == <<syncedToBlock, db, call, nCalls, observed, inOrder, contiguous, lastOkBlock,
          blockHeight, sync, attempt>>

\* What process() neither reads nor writes.
aux == <<blockHeight, sync, attempt>>

IdleSync == [pc |-> "idle", remoteBlockHeight |-> 0, result |-> FALSE]

NoAttempt ==
  [batch |-> [blocks |-> <<>>, logs |-> <<>>], db |-> [notes |-> {}, txs |-> {}]]

IdleCall ==
  [pc |-> "idle",
   l2BlockContexts |-> <<>>, encryptedL2BlockLogs |-> <<>>,
   nBlocks |-> 0, nLogs |-> 0,
   blockIndex |-> 0,
   blocksAndNoteSpendingInfo |-> <<>>,
   ops |-> <<>>,
   error |-> "",
   removed |-> 0,
   newNullifiers |-> <<>>,
   txDaos |-> <<>>,
   syncedAtStart |-> 0,
   dbAtStart |-> [notes |-> {}, txs |-> {}]]

InFlight(s) == call[s].pc \in {"loop", "addNotes", "addTxs", "remove", "advance"}

Finished(s) == call[s].pc \in {"done", "failed"}

Init ==
  /\ syncedToBlock = 0
  /\ db = [notes |-> {ForeignNote}, txs |-> {}]
  /\ call = [s \in Slots |-> IdleCall]
  /\ nCalls = 0
  /\ observed = {}
  /\ inOrder = TRUE
  /\ contiguous = TRUE
  /\ lastOkBlock = 0
  /\ blockHeight = 0
  /\ sync = IdleSync
  /\ attempt = NoAttempt

\* ----------------------------------------------------------- the actions
\* Every log of the batch that decrypts under this key, as a set of notes' nullifiers.
FlatLogs(txLogs) == Concat([t \in 1..Len(txLogs) |-> Concat(txLogs[t])])

CreatedNullifiers(encryptedL2BlockLogs) ==
  {l \in UNION {Range(FlatLogs(encryptedL2BlockLogs[i])) :
                  i \in 1..Len(encryptedL2BlockLogs)} : l \in NoteIds}

BlockNumbers(l2BlockContexts) ==
  [i \in 1..Len(l2BlockContexts) |-> l2BlockContexts[i].number]

\* The nullifiers the blocks of a batch list.
ListedNullifiers(l2BlockContexts) ==
  UNION {Range(l2BlockContexts[i].newNullifiers) : i \in 1..Len(l2BlockContexts)}

\* The batch is a run of consecutive blocks that starts right after block
\* `from`, the last block of the previous successful batch (anywhere when
\* there was none, from = 0).
ContinuesChain(l2BlockContexts, from) ==
  /\ \A i \in 2..Len(l2BlockContexts) :
        l2BlockContexts[i].number = l2BlockContexts[i - 1].number + 1
  /\ from # 0 => l2BlockContexts[1].number = from + 1

\* A call that returned or threw: its locals are gone.
Return(frame, pc, why) ==
  [IdleCall EXCEPT !.pc = pc, !.error = why, !.ops = frame.ops,
                   !.nBlocks = frame.nBlocks, !.nLogs = frame.nLogs,
                   !.removed = frame.removed,
                   !.syncedAtStart = frame.syncedAtStart,
                   !.dbAtStart = frame.dbAtStart]

Fail(frame, op, why) ==
  Return([frame EXCEPT !.ops = IF op = "" THEN @ ELSE Append(@, op)], "failed", why)

\* The first persistence step processBlocksAndNoteSpendingInfo reaches
\* (lines 187-194): the inserts are skipped for empty lists.
\* Mutant: a batch without notes of this key returns before the removal.
AfterLoopReturnsEarly(blocksAndNoteSpendingInfo) ==
  IF NoteSpendingInfoDaosBatch(blocksAndNoteSpendingInfo) # <<>> THEN "addNotes"
  ELSE "advance"

\* Mutant: the note insert is issued for an empty list too.
AfterLoopInsertsAlways(blocksAndNoteSpendingInfo) == "addNotes"

\* Mutant: the txs are inserted first and the note insert is never reached.
AfterLoopTxsFirst(blocksAndNoteSpendingInfo) ==
  IF TxDaos(blocksAndNoteSpendingInfo) # <<>> THEN "addTxs" ELSE "remove"

AfterLoop(blocksAndNoteSpendingInfo) ==
  IF NoteSpendingInfoDaosBatch(blocksAndNoteSpendingInfo) # <<>> THEN "addNotes"
  ELSE IF TxDaos(blocksAndNoteSpendingInfo) # <<>> THEN "addTxs"
  ELSE "remove"

\* Mutant: the tx insert is skipped once the notes are inserted.
AfterAddNotesSkippingTxs(blocksAndNoteSpendingInfo) == "remove"

AfterAddNotes(blocksAndNoteSpendingInfo) ==
  IF TxDaos(blocksAndNoteSpendingInfo) # <<>> THEN "addTxs" ELSE "remove"

\* Mutant: the empty check comes before the length check.
ProcessEmptyCheckFirst(s, batch) ==
  /\ nCalls < MaxCalls
  /\ ~InFlight(s)
  /\ nCalls' = nCalls + 1
  /\ LET frame == [IdleCall EXCEPT !.nBlocks = Len(batch.blocks),
                                   !.nLogs = Len(batch.logs),
                                   !.syncedAtStart = syncedToBlock,
                                   !.dbAtStart = db]
     IN IF Len(batch.blocks) = 0
          THEN /\ call' = [call EXCEPT ![s] = Return(frame, "done", "")]
               /\ UNCHANGED inOrder
        ELSE IF Len(batch.blocks) # Len(batch.logs)
          THEN /\ call' = [call EXCEPT ![s] = Fail(frame, "", "length")]
               /\ UNCHANGED inOrder
        ELSE /\ call' = [call EXCEPT ![s] =
                           [frame EXCEPT !.pc = "loop",
                                         !.l2BlockContexts = batch.blocks,
                                         !.encryptedL2BlockLogs = batch.logs,
                                         !.blockIndex = 1]]
             /\ inOrder' = (inOrder /\ CreatedNullifiers(batch.logs) \cap observed = {})
  /\ UNCHANGED <<syncedToBlock, db, observed, contiguous, lastOkBlock>>

\* Mutant: an empty batch is not returned early; the code after the loop runs.
ProcessWithoutEmptyCheck(s, batch) ==
  /\ nCalls < MaxCalls
  /\ ~InFlight(s)
  /\ nCalls' = nCalls + 1
  /\ LET frame == [IdleCall EXCEPT !.nBlocks = Len(batch.blocks),
                                   !.nLogs = Len(batch.logs),
                                   !.syncedAtStart = syncedToBlock,
                                   !.dbAtStart = db]
     IN IF Len(batch.blocks) # Len(batch.logs)
          THEN /\ call' = [call EXCEPT ![s] = Fail(frame, "", "length")]
               /\ UNCHANGED inOrder
        ELSE IF Len(batch.blocks) = 0
          THEN /\ call' = [call EXCEPT ![s] = [frame EXCEPT !.pc = "remove"]]
               /\ UNCHANGED inOrder
        ELSE /\ call' = [call EXCEPT ![s] =
                           [frame EXCEPT !.pc = "loop",
                                         !.l2BlockContexts = batch.blocks,
                                         !.encryptedL2BlockLogs = batch.logs,
                                         !.blockIndex = 1]]
             /\ inOrder' = (inOrder /\ CreatedNullifiers(batch.logs) \cap observed = {})
  /\ UNCHANGED <<syncedToBlock, db, observed, contiguous, lastOkBlock>>

\* process(l2BlockContexts, encryptedL2BlockLogs) up to its first await
\* (lines 72-95).
Process(s, batch) ==
  /\ nCalls < MaxCalls
  /\ ~InFlight(s)
  /\ nCalls' = nCalls + 1
  /\ LET frame == [IdleCall EXCEPT !.nBlocks = Len(batch.blocks),
                                   !.nLogs = Len(batch.logs),
                                   !.syncedAtStart = syncedToBlock,
                                   !.dbAtStart = db]
     IN IF Len(batch.blocks) # Len(batch.logs)
          THEN /\ call' = [call EXCEPT ![s] = Fail(frame, "", "length")]
               /\ UNCHANGED inOrder
        ELSE IF Len(batch.blocks) = 0
          THEN /\ call' = [call EXCEPT ![s] = Return(frame, "done", "")]
               /\ UNCHANGED inOrder
        ELSE /\ call' = [call EXCEPT ![s] =
                           [frame EXCEPT !.pc = "loop",
                                         !.l2BlockContexts = batch.blocks,
                                         !.encryptedL2BlockLogs = batch.logs,
                                         !.blockIndex = 1]]
             /\ inOrder' = (inOrder /\ CreatedNullifiers(batch.logs) \cap observed = {})
  /\ UNCHANGED <<syncedToBlock, db, observed, contiguous, lastOkBlock>>

\* Mutant: the notes of a block are written to the store as soon as the
\* block is decrypted.
ProcessBlockPersistingEagerly(s) ==
  /\ call[s].pc = "loop"
  /\ LET frame == call[s]
         i == frame.blockIndex
         scan == DecryptBlock(frame.l2BlockContexts[i], frame.encryptedL2BlockLogs[i])
         issued == frame.ops \o <<"getAccountPrivateKey">>
                     \o [k \in 1..scan.nullifierCalls |-> "computeSiloedNullifier"]
         data == Append(frame.blocksAndNoteSpendingInfo,
                        ProcessedData(frame.l2BlockContexts[i], scan))
     IN \E keyKnown \in BOOLEAN :
          /\ call' = [call EXCEPT ![s] =
               IF ~keyKnown THEN Fail(frame, "getAccountPrivateKey", "key")
               ELSE IF scan.threw THEN Fail([frame EXCEPT !.ops = issued], "", "nullifier")
               ELSE IF i < Len(frame.encryptedL2BlockLogs)
                 THEN [frame EXCEPT !.ops = issued, !.blockIndex = i + 1,
                                    !.blocksAndNoteSpendingInfo = data]
               ELSE [frame EXCEPT !.ops = issued, !.blocksAndNoteSpendingInfo = data,
                                  !.pc = AfterLoop(data)]]
          /\ db' = IF keyKnown /\ ~scan.threw
                     THEN addNoteSpendingInfoBatch(db, scan.noteSpendingInfoDaos)
                     ELSE db
  /\ UNCHANGED <<syncedToBlock, nCalls, observed, inOrder, contiguous, lastOkBlock>>

\* One iteration of the block loop (lines 85-126): the private key is
\* fetched, every log of the block is tried, every decrypted note gets its
\* nullifier.  After the last block, processBlocksAndNoteSpendingInfo runs
\* up to its first await.
ProcessBlock(s) ==
  /\ call[s].pc = "loop"
  /\ LET frame == call[s]
         i == frame.blockIndex
         scan == DecryptBlock(frame.l2BlockContexts[i], frame.encryptedL2BlockLogs[i])
         issued == frame.ops \o <<"getAccountPrivateKey">>
                     \o [k \in 1..scan.nullifierCalls |-> "computeSiloedNullifier"]
         data == Append(frame.blocksAndNoteSpendingInfo,
                        ProcessedData(frame.l2BlockContexts[i], scan))
     IN \E keyKnown \in BOOLEAN :
          call' = [call EXCEPT ![s] =
            IF ~keyKnown THEN Fail(frame, "getAccountPrivateKey", "key")
            ELSE IF scan.threw THEN Fail([frame EXCEPT !.ops = issued], "", "nullifier")
            ELSE IF i < Len(frame.encryptedL2BlockLogs)
              THEN [frame EXCEPT !.ops = issued, !.blockIndex = i + 1,
                                 !.blocksAndNoteSpendingInfo = data]
            ELSE [frame EXCEPT !.ops = issued, !.blocksAndNoteSpendingInfo = data,
                               !.pc = AfterLoop(data)]]
  /\ UNCHANGED <<syncedToBlock, db, nCalls, observed, inOrder, contiguous, lastOkBlock>>

\* Mutant: the nullified notes are removed together with the note insert,
\* before the txs are written.
AddNotesAndRemove(s) ==
  /\ call[s].pc = "addNotes"
  /\ LET frame == call[s]
         data == frame.blocksAndNoteSpendingInfo
     IN \E ok \in BOOLEAN :
          IF ok
            THEN /\ db' = removeNullifiedNoteSpendingInfo(
                             addNoteSpendingInfoBatch(db, NoteSpendingInfoDaosBatch(data)),
                             NewNullifiers(data), ThisKey)
                 /\ call' = [call EXCEPT ![s] =
                      [frame EXCEPT !.ops = Append(@, "addNoteSpendingInfoBatch"),
                                    !.pc = AfterAddNotes(data)]]
            ELSE /\ db' = db
                 /\ call' = [call EXCEPT ![s] = Fail(frame, "addNoteSpendingInfoBatch", "db")]
  /\ UNCHANGED <<syncedToBlock, nCalls, observed, inOrder, contiguous, lastOkBlock>>

\* await this.db.addNoteSpendingInfoBatch(noteSpendingInfoDaosBatch) (line 188)
AddNotes(s) ==
  /\ call[s].pc = "addNotes"
  /\ LET frame == call[s]
         data == frame.blocksAndNoteSpendingInfo
     IN \E ok \in BOOLEAN :
          IF ok
            THEN /\ db' = addNoteSpendingInfoBatch(db, NoteSpendingInfoDaosBatch(data))
                 /\ call' = [call EXCEPT ![s] =
                      [frame EXCEPT !.ops = Append(@, "addNoteSpendingInfoBatch"),
                                    !.pc = AfterAddNotes(data)]]
            ELSE /\ db' = db
                 /\ call' = [call EXCEPT ![s] = Fail(frame, "addNoteSpendingInfoBatch", "db")]
  /\ UNCHANGED <<syncedToBlock, nCalls, observed, inOrder, contiguous, lastOkBlock>>

\* Mutant: the watermark is written when the tx insert is issued.
AddTxsAdvancingEarly(s) ==
  /\ call[s].pc = "addTxs"
  /\ syncedToBlock' = Last(call[s].l2BlockContexts).number
  /\ LET frame == call[s]
         data == frame.blocksAndNoteSpendingInfo
     IN \E ok \in BOOLEAN :
          IF ok
            THEN /\ db' = addTxs(db, TxDaos(data))
                 /\ call' = [call EXCEPT ![s] =
                      [frame EXCEPT !.ops = Append(@, "addTxs"),
                                    !.txDaos = TxDaos(data),
                                    !.pc = "remove"]]
            ELSE /\ db' = db
                 /\ call' = [call EXCEPT ![s] = Fail(frame, "addTxs", "db")]
  /\ UNCHANGED <<nCalls, observed, inOrder, contiguous, lastOkBlock>>

\* await this.db.addTxs(txDaos) (line 193)
AddTxs(s) ==
  /\ call[s].pc = "addTxs"
  /\ LET frame == call[s]
         data == frame.blocksAndNoteSpendingInfo
     IN \E ok \in BOOLEAN :
          IF ok
            THEN /\ db' = addTxs(db, TxDaos(data))
                 /\ call' = [call EXCEPT ![s] =
                      [frame EXCEPT !.ops = Append(@, "addTxs"),
                                    !.txDaos = TxDaos(data),
                                    !.pc = "remove"]]
            ELSE /\ db' = db
                 /\ call' = [call EXCEPT ![s] = Fail(frame, "addTxs", "db")]
  /\ UNCHANGED <<syncedToBlock, nCalls, observed, inOrder, contiguous, lastOkBlock>>

\* await this.db.removeNullifiedNoteSpendingInfo(newNullifiers, this.publicKey)
\* (line 194)
\* Mutant: the removal is requested for another public key.
RemoveNullifiedOtherKey(s) ==
  /\ call[s].pc = "remove"
  /\ LET frame == call[s]
         data == frame.blocksAndNoteSpendingInfo
     IN \E ok \in BOOLEAN :
          IF ok
            THEN /\ db' = removeNullifiedNoteSpendingInfo(db, NewNullifiers(data), OtherKey)
                 /\ call' = [call EXCEPT ![s] =
                      [frame EXCEPT !.ops = Append(@, "removeNullifiedNoteSpendingInfo"),
                                    !.removed = Cardinality(
                                       NullifiedIn(db, NewNullifiers(data), OtherKey)),
                                    !.newNullifiers = NewNullifiers(data),
                                    !.pc = "advance"]]
            ELSE /\ db' = db
                 /\ call' = [call EXCEPT ![s] =
                      Fail(frame, "removeNullifiedNoteSpendingInfo", "db")]
  /\ UNCHANGED <<syncedToBlock, nCalls, observed, inOrder, contiguous, lastOkBlock>>

RemoveNullified(s) ==
  /\ call[s].pc = "remove"
  /\ LET frame == call[s]
         data == frame.blocksAndNoteSpendingInfo
     IN \E ok \in BOOLEAN :
          IF ok
            THEN /\ db' = removeNullifiedNoteSpendingInfo(db, NewNullifiers(data), ThisKey)
                 /\ call' = [call EXCEPT ![s] =
                      [frame EXCEPT !.ops = Append(@, "removeNullifiedNoteSpendingInfo"),
                                    !.removed = Cardinality(
                                       NullifiedIn(db, NewNullifiers(data), ThisKey)),
                                    !.newNullifiers = NewNullifiers(data),
                                    !.pc = "advance"]]
            ELSE /\ db' = db
                 /\ call' = [call EXCEPT ![s] =
                      Fail(frame, "removeNullifiedNoteSpendingInfo", "db")]
  /\ UNCHANGED <<syncedToBlock, nCalls, observed, inOrder, contiguous, lastOkBlock>>

\* this.syncedToBlock = l2BlockContexts[l2BlockContexts.length - 1].block.number
\* (line 130), and process returns.
\* Mutant: the watermark never moves back.
SyncedToBlockMax(old, l2BlockContexts) == Max(old, Last(l2BlockContexts).number)

\* Mutant: the assignment is dropped.
SyncedToBlockKept(old, l2BlockContexts) == old

\* Mutant: the number of the first block of the batch is taken.
SyncedToBlockFirst(old, l2BlockContexts) == l2BlockContexts[1].number

SyncedToBlockAfter(old, l2BlockContexts) == Last(l2BlockContexts).number

Advance(s) ==
  /\ call[s].pc = "advance"
  /\ LET frame == call[s] IN
       /\ syncedToBlock' = SyncedToBlockAfter(syncedToBlock, frame.l2BlockContexts)
       /\ call' = [call EXCEPT ![s] = Return(frame, "done", "")]
       /\ observed' = observed \cup ListedNullifiers(frame.l2BlockContexts)
       /\ contiguous' = (contiguous /\ ContinuesChain(frame.l2BlockContexts, lastOkBlock))
       /\ lastOkBlock' = Last(frame.l2BlockContexts).number
  /\ UNCHANGED <<db, nCalls, inOrder>>

SerialBatches == Batches({FALSE})

\* The caller serializes the calls of one NoteProcessor (one call slot).
SerialProcess ==
  /\ \A t \in Slots : ~InFlight(t)
  /\ \E batch \in SerialBatches : Process(1, batch)

Next ==
  \/ SerialProcess /\ UNCHANGED aux
  \/ ProcessBlock(1) /\ UNCHANGED aux
  \/ AddNotes(1) /\ UNCHANGED aux
  \/ AddTxs(1) /\ UNCHANGED aux
  \/ RemoveNullified(1) /\ UNCHANGED aux
  \/ Advance(1) /\ UNCHANGED aux

Spec == Init /\ [][Next]_vars

\* One process call on a batch with nested logs.
NestedProcess ==
  /\ nCalls = 0
  /\ \E batch \in NestedBatches : Process(1, batch)

NextNested ==
  \/ NestedProcess /\ UNCHANGED aux
  \/ ProcessBlock(1) /\ UNCHANGED aux
  \/ AddNotes(1) /\ UNCHANGED aux
  \/ AddTxs(1) /\ UNCHANGED aux
  \/ RemoveNullified(1) /\ UNCHANGED aux
  \/ Advance(1) /\ UNCHANGED aux

SpecNested == Init /\ [][NextNested]_vars

\* Calls that are not serialized: the k-th call is given block k, as a batch
\* of one block, and may start while earlier calls are suspended at an await.
ConcurrentBlockInputs == AlignedBlockInputs({FALSE})

ConcurrentProcess(s) ==
  /\ call[s].pc = "idle"
  /\ s > 1 => call[s - 1].pc # "idle"
  /\ \E b \in ConcurrentBlockInputs :
        /\ b.ctx.number = s
        /\ Process(s, [blocks |-> <<b.ctx>>, logs |-> <<b.logs>>])

NextConcurrent ==
  \E s \in Slots :
    \/ ConcurrentProcess(s) /\ UNCHANGED aux
    \/ ProcessBlock(s) /\ UNCHANGED aux
    \/ AddNotes(s) /\ UNCHANGED aux
    \/ AddTxs(s) /\ UNCHANGED aux
    \/ RemoveNullified(s) /\ UNCHANGED aux
    \/ Advance(s) /\ UNCHANGED aux

SpecConcurrent == Init /\ [][NextConcurrent]_vars

\* ------------------------------------------------- a batch re-submitted
\* Notes of this key an earlier call stored from block 1.
StoredNotes ==
  {NoteSpendingInfoDao(fromEncryptedBuffer(k)[1], DataStartOf(1), 0) : k \in NoteIds}

InitRetry ==
  /\ syncedToBlock = 0
  /\ db \in {[notes |-> {ForeignNote} \cup S, txs |-> {}] : S \in SUBSET StoredNotes}
  /\ call = [s \in Slots |-> IdleCall]
  /\ nCalls = 0
  /\ observed = {}
  /\ inOrder = TRUE
  /\ contiguous = TRUE
  /\ lastOkBlock = 0
  /\ blockHeight = 0
  /\ sync = IdleSync
  /\ attempt = NoAttempt

\* The caller keeps the batch it submits.
FirstProcess ==
  /\ nCalls = 0
  /\ \E batch \in SerialBatches :
        /\ Process(1, batch)
        /\ attempt' = [batch |-> batch, db |-> db]
  /\ UNCHANGED <<blockHeight, sync>>

\* After a failed persistence call the caller submits the same batch again.
Resubmit ==
  /\ nCalls = 1
  /\ call[1].pc = "failed" /\ call[1].error = "db"
  /\ Process(1, attempt.batch)
  /\ UNCHANGED aux

NextRetry ==
  \/ FirstProcess
  \/ Resubmit
  \/ ProcessBlock(1) /\ UNCHANGED aux
  \/ AddNotes(1) /\ UNCHANGED aux
  \/ AddTxs(1) /\ UNCHANGED aux
  \/ RemoveNullified(1) /\ UNCHANGED aux
  \/ Advance(1) /\ UNCHANGED aux

SpecRetry == InitRetry /\ [][NextRetry]_vars

\* ------------------------------------------------------ isSynchronised()
process == <<syncedToBlock, db, call, nCalls, observed, inOrder, contiguous, lastOkBlock>>

\* The chain grows at the AztecNode.
NodeAddsBlock ==
  /\ blockHeight < MaxBlockHeight
  /\ blockHeight' = blockHeight + 1
  /\ UNCHANGED <<process, sync, attempt>>

\* isSynchronised() up to its await: the height is requested (line 58).
IsSynchronised ==
  /\ sync.pc \in {"idle", "done", "failed"}
  /\ sync' = [IdleSync EXCEPT !.pc = "getBlockHeight"]
  /\ UNCHANGED <<process, blockHeight, attempt>>

\* AztecNode.getBlockHeight: the node answers with its height, or fails.
GetBlockHeight ==
  /\ sync.pc = "getBlockHeight"
  /\ \E ok \in BOOLEAN :
       sync' = IF ok THEN [sync EXCEPT !.pc = "resume", !.remoteBlockHeight = blockHeight]
               ELSE [sync EXCEPT !.pc = "failed"]
  /\ UNCHANGED <<process, blockHeight, attempt>>

\* return this.syncedToBlock === remoteBlockHeight (line 59)
\* Mutant: being ahead of the returned height counts as synchronised.
IsSynchronisedAtLeast(synced, remoteBlockHeight) == synced >= remoteBlockHeight

IsSynchronisedResult(synced, remoteBlockHeight) == synced = remoteBlockHeight

IsSynchronisedReturns ==
  /\ sync.pc = "resume"
  /\ sync' = [sync EXCEPT !.pc = "done",
                          !.result = IsSynchronisedResult(syncedToBlock, sync.remoteBlockHeight)]
  /\ UNCHANGED <<process, blockHeight, attempt>>

\* Batches of one block listing no nullifier, for the process calls that
\* run between the steps of isSynchronised.
PlainBatches ==
  {[blocks |-> <<b.ctx>>, logs |-> <<b.logs>>] :
     b \in {x \in AlignedBlockInputs({FALSE}) : x.ctx.newNullifiers = <<>>}}

PlainProcess ==
  /\ \A t \in Slots : ~InFlight(t)
  /\ \E batch \in PlainBatches : Process(1, batch)

NextQuery ==
  \/ NodeAddsBlock
  \/ IsSynchronised
  \/ GetBlockHeight
  \/ IsSynchronisedReturns
  \/ PlainProcess /\ UNCHANGED aux
  \/ ProcessBlock(1) /\ UNCHANGED aux
  \/ AddNotes(1) /\ UNCHANGED aux
  \/ AddTxs(1) /\ UNCHANGED aux
  \/ RemoveNullified(1) /\ UNCHANGED aux
  \/ Advance(1) /\ UNCHANGED aux

SpecQuery == Init /\ [][NextQuery]_vars

\* ============================================================ the claims
OwnNotes(store) == {n \in store.notes : n.publicKey = ThisKey}

Quiescent == \A s \in Slots : ~InFlight(s)

PersistenceOps ==
  {"addNoteSpendingInfoBatch", "addTxs", "removeNullifiedNoteSpendingInfo"}

PersistOps(ops) == SelectSeq(ops, LAMBDA o : o \in PersistenceOps)

Count(ops, op) == Len(SelectSeq(ops, LAMBDA o : o = op))

IsPrefix(p, q) == Len(p) <= Len(q) /\ \A i \in 1..Len(p) : p[i] = q[i]

\* The persistence calls a batch needs, in the order of lines 187-194.
ExpectedOps(data) ==
  (IF NoteSpendingInfoDaosBatch(data) # <<>> THEN <<"addNoteSpendingInfoBatch">> ELSE <<>>)
  \o (IF TxDaos(data) # <<>> THEN <<"addTxs">> ELSE <<>>)
  \o <<"removeNullifiedNoteSpendingInfo">>

\* The step in which the process call of slot s returns successfully.
Returns(s) == call[s].pc = "advance" /\ call'[s].pc = "done"

\* C1: when process(batch) returns successfully, the store holds no note of
\* this key that the batch created and whose nullifier is listed by a block
\* of the same batch, whichever of the two blocks comes first.
C1_SameBatchSpend ==
  [][\A s \in Slots : Returns(s) =>
       LET data == call[s].blocksAndNoteSpendingInfo IN
       \A i \in 1..Len(data) : \A n \in Range(data[i].noteSpendingInfoDaos) :
          n.nullifier \in ListedNullifiers(call[s].l2BlockContexts) => n \notin db'.notes]_vars

\* A two-block batch is about to return: each block created a note, the first
\* block lists the nullifier of the note the second creates and the second
\* block the nullifier of the note the first creates.
C1_Witness ==
  \E s \in Slots :
    /\ call[s].pc = "advance"
    /\ LET data == call[s].blocksAndNoteSpendingInfo IN
       /\ Len(data) = 2
       /\ \E a \in Range(data[1].noteSpendingInfoDaos), b \in Range(data[2].noteSpendingInfoDaos) :
            /\ a.nullifier \in Range(data[2].blockContext.newNullifiers)
            /\ b.nullifier \in Range(data[1].blockContext.newNullifiers)
            /\ a \notin db.notes /\ b \notin db.notes
    /\ "addNoteSpendingInfoBatch" \in Range(call[s].ops)

\* C2 as stated: between process calls the store holds no note of this key
\* whose nullifier a block of a successful call listed, for any sequence of
\* calls.
C2_NoObservedNullifierStored ==
  Quiescent => \A n \in OwnNotes(db) : n.nullifier \notin observed

\* C2 amended: the same, for sequences of calls in which no batch holds a log
\* creating a note whose nullifier an earlier successful call had already
\* observed.
C2_NoObservedNullifierStoredInOrder ==
  (Quiescent /\ inOrder) => \A n \in OwnNotes(db) : n.nullifier \notin observed

\* A later call that stored no note removed a note an earlier call had
\* stored, while another note of this key stays stored.
C2_Witness ==
  \E s \in Slots :
    /\ call[s].pc = "done" /\ inOrder /\ nCalls = 2
    /\ call[s].removed > 0
    /\ "addNoteSpendingInfoBatch" \notin Range(call[s].ops)
    /\ OwnNotes(db) # {}
    /\ observed # {}

\* C3: a persistence failure fails the call, and the watermark keeps the
\* value it had when the call started for as long as the call has not
\* returned successfully.
C3_WatermarkAtomic ==
  \A s \in Slots :
    call[s].pc \in {"loop", "addNotes", "addTxs", "remove", "advance", "failed"}
      => syncedToBlock = call[s].syncedAtStart

\* The tx insert failed after the notes of the batch were written, in a call
\* that started from a non-zero watermark.
C3_Witness ==
  \E s \in Slots :
    /\ call[s].pc = "failed" /\ call[s].error = "db"
    /\ PersistOps(call[s].ops) = <<"addNoteSpendingInfoBatch", "addTxs">>
    /\ OwnNotes(db) \ call[s].dbAtStart.notes # {}
    /\ call[s].syncedAtStart > 0

\* C4 as stated: after a failed call the watermark, the stored notes and the
\* stored txs are what they were before the call.
C4_FailedCallChangesNothing ==
  \A s \in Slots :
    call[s].pc = "failed" =>
      syncedToBlock = call[s].syncedAtStart /\ db = call[s].dbAtStart

\* C4 amended: after a failed call the watermark is what it was before the
\* call and nothing was removed from the store; the stored notes are those
\* before the call unless the note insert of the call had succeeded (then
\* notes of this key were added), and the stored txs are those before the
\* call unless its tx insert had succeeded.
C4_FailedCallKeepsWatermarkAndRemovesNothing ==
  \A s \in Slots :
    call[s].pc = "failed" =>
      LET done == IF call[s].error = "db"
                    THEN SubSeq(PersistOps(call[s].ops), 1, Len(PersistOps(call[s].ops)) - 1)
                    ELSE PersistOps(call[s].ops)
      IN /\ syncedToBlock = call[s].syncedAtStart
         /\ call[s].dbAtStart.notes \subseteq db.notes
         /\ call[s].dbAtStart.txs \subseteq db.txs
         /\ db.notes \ call[s].dbAtStart.notes \subseteq OwnNotes(db)
         /\ "addNoteSpendingInfoBatch" \notin Range(done) => db.notes = call[s].dbAtStart.notes
         /\ "addTxs" \notin Range(done) => db.txs = call[s].dbAtStart.txs

\* The removal failed after both inserts had written: the failed call left
\* a new note and a new tx in the store.
C4_Witness ==
  \E s \in Slots :
    /\ call[s].pc = "failed" /\ call[s].error = "db"
    /\ Last(call[s].ops) = "removeNullifiedNoteSpendingInfo"
    /\ db.notes # call[s].dbAtStart.notes
    /\ db.txs # call[s].dbAtStart.txs

C6_WatermarkContiguous ==
  [][contiguous' => /\ syncedToBlock' >= syncedToBlock
                    /\ syncedToBlock' = lastOkBlock']_vars

\* Two successful calls, the second continuing at the block after the
\* first, moved the watermark from 0 to 1 and on to MaxBlockNum.
C6_Witness ==
  \E s \in Slots :
    /\ call[s].pc = "done" /\ contiguous /\ nCalls = 2
    /\ call[s].syncedAtStart = 1 /\ call[s].nBlocks > 0
    /\ syncedToBlock = 2 /\ lastOkBlock = 2

\* C7: within one call the persistence calls are issued in the order note
\* insert, tx insert, removal (an insert of an empty list is not issued),
\* after all key and nullifier calls; nothing is issued by a call that has
\* failed; the watermark is written only by a call all of whose persistence
\* calls were issued and succeeded.
C7_PersistenceOrder ==
  [][\A s \in Slots :
       LET frame == call[s]
           data == frame.blocksAndNoteSpendingInfo
           persisted == PersistOps(frame.ops)
       IN /\ frame.pc \in {"addNotes", "addTxs", "remove", "advance"} =>
               /\ IsPrefix(persisted, ExpectedOps(data))
               /\ frame.ops = SelectSeq(frame.ops, LAMBDA o : o \notin PersistenceOps)
                                \o persisted
               /\ frame.pc = "advance" <=> persisted = ExpectedOps(data)
               /\ call'[s].pc # "idle" /\ nCalls' = nCalls =>
                    IsPrefix(PersistOps(call'[s].ops), ExpectedOps(data))
          /\ frame.pc = "loop" => persisted = <<>>
          /\ frame.pc = "failed" /\ nCalls' = nCalls => call'[s] = frame
          /\ syncedToBlock' # syncedToBlock =>
               \E t \in Slots : Returns(t) /\ PersistOps(call[t].ops)
                                     = ExpectedOps(call[t].blocksAndNoteSpendingInfo)]_vars

\* A call is about to write the watermark after the note insert, the tx
\* insert and the removal, in this order, all succeeded.
C7_Witness ==
  \E s \in Slots :
    /\ call[s].pc = "advance"
    /\ PersistOps(call[s].ops)
         = <<"addNoteSpendingInfoBatch", "addTxs", "removeNullifiedNoteSpendingInfo">>

\* C8: a call whose blocks and logs differ in number fails at once with the
\* length error, before any key, crypto or persistence call, and leaves the
\* watermark and the store as they were; also when one of the two is empty.
C8_LengthMismatch ==
  \A s \in Slots :
    /\ (call[s].pc # "idle" /\ call[s].nBlocks # call[s].nLogs) =>
          call[s].pc = "failed" /\ call[s].error = "length"
    /\ (call[s].pc = "failed" /\ call[s].error = "length") =>
          /\ call[s].nBlocks # call[s].nLogs
          /\ call[s].ops = <<>>
          /\ syncedToBlock = call[s].syncedAtStart
          /\ db = call[s].dbAtStart

\* A call with no block and one log entry failed with the length error,
\* with notes of this key in the store and a non-zero watermark.
C8_Witness ==
  \E s \in Slots :
    /\ call[s].pc = "failed" /\ call[s].error = "length"
    /\ call[s].nBlocks = 0 /\ call[s].nLogs > 0
    /\ syncedToBlock > 0 /\ OwnNotes(db) # {}

\* C9: a call with zero blocks and zero log entries succeeds at once without
\* any key, crypto or persistence call (no removal either) and leaves the
\* watermark and the store as they were.
C9_EmptyBatch ==
  \A s \in Slots :
    (call[s].pc # "idle" /\ call[s].nBlocks = 0 /\ call[s].nLogs = 0) =>
       /\ call[s].pc = "done"
       /\ call[s].ops = <<>>
       /\ syncedToBlock = call[s].syncedAtStart
       /\ db = call[s].dbAtStart

\* An empty batch returned in a state with a non-zero watermark and a note
\* of this key in the store.
C9_Witness ==
  \E s \in Slots :
    /\ call[s].pc = "done" /\ call[s].nBlocks = 0 /\ call[s].nLogs = 0
    /\ nCalls = 2 /\ syncedToBlock > 0 /\ OwnNotes(db) # {}

\* C10: a call that fails at the key fetch or at a nullifier derivation, in
\* whichever block, has issued no persistence call and leaves the watermark
\* and the store as they were; persistence starts only when every block of
\* the batch has been decrypted, and no block whose log has a rejected
\* preimage is ever passed on.
C10_CryptoFailureBeforeAnyWrite ==
  \A s \in Slots :
    /\ (call[s].pc = "failed" /\ call[s].error \in {"key", "nullifier"}) =>
          /\ PersistOps(call[s].ops) = <<>>
          /\ syncedToBlock = call[s].syncedAtStart
          /\ db = call[s].dbAtStart
    /\ call[s].pc = "loop" => db = call[s].dbAtStart
    /\ call[s].pc \in {"addNotes", "addTxs", "remove", "advance"} =>
          Len(call[s].blocksAndNoteSpendingInfo) = call[s].nBlocks
    /\ \A i \in 1..Len(call[s].blocksAndNoteSpendingInfo) :
          BadLog \notin Range(FlatLogs(call[s].encryptedL2BlockLogs[i]))

\* The nullifier derivation failed in the last block of a two-block batch
\* whose first block held a note of this key.
C10_Witness ==
  \E s \in Slots :
    /\ call[s].pc = "failed" /\ call[s].error = "nullifier"
    /\ call[s].nBlocks = 2
    /\ Count(call[s].ops, "getAccountPrivateKey") = 2
    /\ Count(call[s].ops, "computeSiloedNullifier") = 2

\* C14: when a process call returns successfully, every note the store held
\* when the call started is still stored unless it is a note of this key
\* whose nullifier a block of the batch lists, and every such listed note is
\* gone, whether or not the batch holds a log this key decrypts.
C14_CrossBatchSpend ==
  [][\A s \in Slots : Returns(s) =>
       \A n \in call[s].dbAtStart.notes :
          (n \in db'.notes) <=>
            ~(n.publicKey = ThisKey
              /\ n.nullifier \in ListedNullifiers(call[s].l2BlockContexts))]_vars

\* After an earlier successful call, a call whose batch held no decryptable
\* log is about to return: it removed a note of this key stored before it
\* started and left another one stored.
C14_Witness ==
  \E s \in Slots :
    /\ call[s].pc = "advance"
    /\ call[s].syncedAtStart > 0
    /\ \A i \in 1..Len(call[s].blocksAndNoteSpendingInfo) :
          call[s].blocksAndNoteSpendingInfo[i].noteSpendingInfoDaos = <<>>
    /\ "addNoteSpendingInfoBatch" \notin Range(call[s].ops)
    /\ \E gone, kept \in OwnNotes(call[s].dbAtStart) :
          /\ gone.nullifier \in ListedNullifiers(call[s].l2BlockContexts)
          /\ gone \notin db.notes
          /\ kept.nullifier \notin ListedNullifiers(call[s].l2BlockContexts)
          /\ kept \in db.notes

\* No log of the batch decrypts under this key.
NoLogDecrypts(encryptedL2BlockLogs) ==
  \A i \in 1..Len(encryptedL2BlockLogs) :
     \A l \in Range(FlatLogs(encryptedL2BlockLogs[i])) : fromEncryptedBuffer(l) = <<>>

\* The newNullifiers of the blocks of a batch, one block after the other.
NullifiersInBlockOrder(l2BlockContexts) ==
  Concat([i \in 1..Len(l2BlockContexts) |-> l2BlockContexts[i].newNullifiers])

\* C20: a process call on a non-empty batch none of whose logs decrypts
\* returns having issued no note insert and no tx insert and exactly one
\* removal, requested with the newNullifiers of all blocks concatenated in
\* block order, and sets the watermark to the number of the last block.
C20_NothingDecryptsStillAdvances ==
  [][\A s \in Slots :
       (Returns(s) /\ NoLogDecrypts(call[s].encryptedL2BlockLogs)) =>
          /\ PersistOps(call[s].ops) = <<"removeNullifiedNoteSpendingInfo">>
          /\ call[s].newNullifiers = NullifiersInBlockOrder(call[s].l2BlockContexts)
          /\ syncedToBlock' = Last(call[s].l2BlockContexts).number]_vars

\* A two-block batch without a decryptable log, each block listing a
\* different nullifier, has had its removal done and is about to return.
C20_Witness ==
  \E s \in Slots :
    /\ call[s].pc = "advance"
    /\ NoLogDecrypts(call[s].encryptedL2BlockLogs)
    /\ Len(call[s].l2BlockContexts) = 2
    /\ call[s].l2BlockContexts[1].newNullifiers # <<>>
    /\ call[s].l2BlockContexts[2].newNullifiers # <<>>
    /\ call[s].l2BlockContexts[1].newNullifiers # call[s].l2BlockContexts[2].newNullifiers
    /\ Len(call[s].newNullifiers) = 2
    /\ syncedToBlock # Last(call[s].l2BlockContexts).number

\* ------------------------------------------- claims about the block scan
\* The logs of a block in the order transaction, function-log group, log,
\* and for each of them the (0-based) index of its transaction.
TxIndexOfLogs(txLogs) ==
  Concat([t \in 1..Len(txLogs) |-> [k \in 1..Len(Concat(txLogs[t])) |-> t - 1]])

\* The (1-based) positions of the logs of a block that decrypt under this key.
DecryptedPositions(txLogs) ==
  {p \in 1..Len(FlatLogs(txLogs)) : fromEncryptedBuffer(FlatLogs(txLogs)[p]) # <<>>}

\* The position of the k-th log that decrypts.
DecryptedPosition(txLogs, k) ==
  CHOOSE p \in DecryptedPositions(txLogs) :
    Cardinality({q \in DecryptedPositions(txLogs) : q <= p}) = k

\* C12: the k-th note of every processed block of a call has the index
\* dataStartIndexForBlock + p, p being the 0-based position, among all logs
\* of that block in nested order, of the k-th log that decrypts.
C12_LeafIndex ==
  \A s \in Slots : \A i \in 1..Len(call[s].blocksAndNoteSpendingInfo) :
    LET daos == call[s].blocksAndNoteSpendingInfo[i].noteSpendingInfoDaos
        txLogs == call[s].encryptedL2BlockLogs[i]
    IN \A k \in 1..Len(daos) :
         /\ k <= Cardinality(DecryptedPositions(txLogs))
         /\ daos[k].notePreimage = FlatLogs(txLogs)[DecryptedPosition(txLogs, k)]
         /\ daos[k].index = call[s].l2BlockContexts[i].nextAvailableLeafIndex
                              + (DecryptedPosition(txLogs, k) - 1)

\* A processed block of a later block number whose second transaction holds
\* a note at position 2 of the block, behind a log of the first transaction
\* that decrypts and one that does not.
C12_Witness ==
  \E s \in Slots :
    /\ call[s].pc = "addNotes"
    /\ LET txLogs == call[s].encryptedL2BlockLogs[1]
           daos == call[s].blocksAndNoteSpendingInfo[1].noteSpendingInfoDaos
       IN /\ call[s].l2BlockContexts[1].nextAvailableLeafIndex > 0
          /\ Len(FlatLogs(txLogs)) = 3
          /\ TxIndexOfLogs(txLogs) = <<0, 0, 1>>
          /\ DecryptedPositions(txLogs) = {1, 3}
          /\ Len(daos) = 2
          /\ daos[2].index = call[s].l2BlockContexts[1].nextAvailableLeafIndex + 2

\* C13: every processed block of a call yields one note per log that
\* decrypts, in the order of the logs, and a duplicate-free pertaining list
\* holding exactly the indices of the transactions of those logs; a process
\* call only fails in computeSiloedNullifier when a log of its batch decrypted.
C13_DecryptionSelectivity ==
  [][\A s \in Slots :
       /\ \A i \in 1..Len(call'[s].blocksAndNoteSpendingInfo) :
            LET data == call'[s].blocksAndNoteSpendingInfo[i]
                daos == data.noteSpendingInfoDaos
                txLogs == call'[s].encryptedL2BlockLogs[i]
            IN /\ Len(daos) = Cardinality(DecryptedPositions(txLogs))
               /\ \A k \in 1..Len(daos) :
                    daos[k].notePreimage = FlatLogs(txLogs)[DecryptedPosition(txLogs, k)]
               /\ Range(data.userPertainingTxIndices)
                    = {TxIndexOfLogs(txLogs)[p] : p \in DecryptedPositions(txLogs)}
               /\ Len(data.userPertainingTxIndices)
                    = Cardinality(Range(data.userPertainingTxIndices))
       /\ (call[s].pc = "loop" /\ call'[s].pc = "failed"
             /\ NoLogDecrypts(call[s].encryptedL2BlockLogs))
            => call'[s].error = "key"]_vars

\* A processed block with three logs: the log of the first transaction does
\* not decrypt, the two logs of the second transaction do.
C13_Witness ==
  \E s \in Slots :
    /\ call[s].pc = "addNotes"
    /\ LET txLogs == call[s].encryptedL2BlockLogs[1]
           data == call[s].blocksAndNoteSpendingInfo[1]
       IN /\ TxIndexOfLogs(txLogs) = <<0, 1, 1>>
          /\ DecryptedPositions(txLogs) = {2, 3}
          /\ Len(data.noteSpendingInfoDaos) = 2
          /\ data.userPertainingTxIndices = <<1>>

\* The indices of the transactions of a block holding a log that decrypts.
PertainingTxs(txLogs) ==
  {TxIndexOfLogs(txLogs)[p] : p \in DecryptedPositions(txLogs)}

\* The j-th smallest element of a set of numbers.
NthSmallest(S, j) == CHOOSE x \in S : Cardinality({y \in S : y <= x}) = j

\* (block number, transaction index) of the transactions of a batch holding
\* a log that decrypts: block after block, each transaction once, the
\* transactions of a block in ascending order.
PertainingTxsInOrder(l2BlockContexts, encryptedL2BlockLogs) ==
  Concat([i \in 1..Len(l2BlockContexts) |->
            [j \in 1..Cardinality(PertainingTxs(encryptedL2BlockLogs[i])) |->
               <<l2BlockContexts[i].number,
                 NthSmallest(PertainingTxs(encryptedL2BlockLogs[i]), j)>>]])

\* C15: a process call that returns successfully has submitted one tx record
\* for each transaction of each block in which a log decrypted, in block
\* order and in ascending order within a block, and no other; the records
\* are stored, and so is a note for every log that decrypted (the blocks list
\* no nullifiers).
C15_OneTxDaoPerPertainingTx ==
  [][\A s \in Slots : Returns(s) =>
       LET ctxs == call[s].l2BlockContexts
           logs == call[s].encryptedL2BlockLogs
       IN /\ [j \in 1..Len(call[s].txDaos) |-> call[s].txDaos[j].txHash]
               = PertainingTxsInOrder(ctxs, logs)
          /\ Range(call[s].txDaos) \subseteq db'.txs
          /\ Count(call[s].ops, "addTxs")
               = (IF PertainingTxsInOrder(ctxs, logs) = <<>> THEN 0 ELSE 1)
          /\ \A i \in 1..Len(ctxs) : \A p \in DecryptedPositions(logs[i]) :
               \E n \in OwnNotes(db') :
                  /\ n.index = ctxs[i].nextAvailableLeafIndex + (p - 1)
                  /\ n.notePreimage = FlatLogs(logs[i])[p]]_vars

\* A call about to return whose block holds two logs that decrypt in its
\* first transaction and one in its second: two tx records were submitted
\* and three notes are stored.
C15_Witness ==
  \E s \in Slots :
    /\ call[s].pc = "advance"
    /\ LET txLogs == call[s].encryptedL2BlockLogs[1] IN
         /\ TxIndexOfLogs(txLogs) = <<0, 0, 1>>
         /\ DecryptedPositions(txLogs) = {1, 2, 3}
    /\ Len(call[s].txDaos) = 2
    /\ Cardinality({n.index : n \in OwnNotes(db)}) = 3

\* For the pertaining transactions of a batch, in the order of
\* PertainingTxsInOrder: whether newContractData[0].contractAddress of the
\* transaction is non-zero.
DeploysInOrder(l2BlockContexts, encryptedL2BlockLogs) ==
  Concat([i \in 1..Len(l2BlockContexts) |->
            [j \in 1..Cardinality(PertainingTxs(encryptedL2BlockLogs[i])) |->
               l2BlockContexts[i].deployments[
                  NthSmallest(PertainingTxs(encryptedL2BlockLogs[i]), j) + 1]]])

\* C16: in the tx records a successful process call submitted, the contract
\* address of a record is set exactly when the first contract-deployment
\* entry of its transaction is non-zero.
C16_ContractAddressIffDeployment ==
  [][\A s \in Slots : Returns(s) =>
       [j \in 1..Len(call[s].txDaos) |-> call[s].txDaos[j].contractAddress # NoAddress]
         = DeploysInOrder(call[s].l2BlockContexts, call[s].encryptedL2BlockLogs)]_vars

\* A call about to return submitted two tx records of one block, the first
\* without and the second with a contract address.
C16_Witness ==
  \E s \in Slots :
    /\ call[s].pc = "advance"
    /\ Len(call[s].l2BlockContexts) = 1
    /\ Len(call[s].txDaos) = 2
    /\ call[s].txDaos[1].contractAddress = NoAddress
    /\ call[s].txDaos[2].contractAddress # NoAddress
    /\ call[s].l2BlockContexts[1].deployments = <<FALSE, TRUE>>

\* C17 as stated: the contract address of every tx record a process call
\* submitted is the contract address of a note decrypted from a log of the
\* transaction of that record.
C17_ContractAddressOfOwnNote ==
  \A s \in Slots : \A j \in 1..Len(call[s].txDaos) :
    LET tx == call[s].txDaos[j]
        ctxs == call[s].l2BlockContexts
        logs == call[s].encryptedL2BlockLogs
    IN tx.contractAddress # NoAddress =>
         \E i \in 1..Len(ctxs) :
            /\ ctxs[i].number = tx.txHash[1]
            /\ \E p \in DecryptedPositions(logs[i]) :
                 /\ TxIndexOfLogs(logs[i])[p] = tx.txHash[2]
                 /\ fromEncryptedBuffer(FlatLogs(logs[i])[p])[1].contractAddress
                      = tx.contractAddress

\* ------------------------------------------ claims about concurrent calls
\* Two process calls are suspended at an await at the same time.
Overlap == \E s, t \in Slots : s # t /\ InFlight(s) /\ InFlight(t)

\* The highest block number a process call has successfully processed (the
\* k-th call is given block k).
HighestProcessed ==
  IF \E s \in Slots : call[s].pc = "done"
    THEN CHOOSE s \in Slots : call[s].pc = "done" /\ \A t \in Slots : call[t].pc = "done" => t <= s
    ELSE 0

\* C18: as long as no two process calls are in flight at once, the watermark
\* is never below the highest block number successfully processed.
C18_SerialCallsKeepWatermark ==
  ([]~Overlap) => [](syncedToBlock >= HighestProcessed)

\* Both calls returned successfully, the call given block 2 first, and the
\* watermark is the block number of the lower batch.
C18_Witness ==
  /\ call[1].pc = "done" /\ call[2].pc = "done"
  /\ HighestProcessed = 2
  /\ syncedToBlock = 1

\* ------------------------------------------- claims about isSynchronised
\* C19: isSynchronised passes on the height the node answered with, returns
\* whether syncedToBlock equals it (on a NoteProcessor that has processed
\* nothing: whether it is 0), and none of its steps changes syncedToBlock,
\* the store or a process call.
C19_IsSynchronised ==
  [][/\ (sync.pc = "getBlockHeight" /\ sync'.pc = "resume")
          => sync'.remoteBlockHeight = blockHeight
     /\ (sync.pc = "resume" /\ sync'.pc = "done")
          => /\ sync'.remoteBlockHeight = sync.remoteBlockHeight
             /\ sync'.result <=> (syncedToBlock = sync.remoteBlockHeight)
             /\ nCalls = 0 => (sync'.result <=> (sync.remoteBlockHeight = 0))
     /\ sync' # sync
          => (syncedToBlock' = syncedToBlock /\ db' = db /\ call' = call)]_vars

\* isSynchronised answered true on a NoteProcessor that has processed a
\* block, and the node has since grown past syncedToBlock.
C19_Witness ==
  /\ sync.pc = "done"
  /\ sync.result
  /\ syncedToBlock > 0
  /\ sync.remoteBlockHeight = syncedToBlock
  /\ blockHeight > syncedToBlock

\* ------------------------------------------- claims about a re-submission
\* The notes of this key the logs of a batch decrypt to.
CreatedNotes(batch) ==
  UNION {{NoteSpendingInfoDao(fromEncryptedBuffer(FlatLogs(batch.logs[i])[p])[1],
                              batch.blocks[i].nextAvailableLeafIndex, p - 1) :
            p \in DecryptedPositions(batch.logs[i])} : i \in 1..Len(batch.logs)}

\* The tx records of the transactions of a batch holding a log that
\* decrypts; no transaction deploys a contract.
CreatedTxs(batch) ==
  UNION {{[txHash |-> getTxHash(batch.blocks[i], t),
           blockHash |-> getBlockHash(batch.blocks[i]),
           blockNumber |-> batch.blocks[i].number,
           origin |-> ThisAddress,
           contractAddress |-> NoAddress,
           error |-> ""] : t \in PertainingTxs(batch.logs[i])} : i \in 1..Len(batch.logs)}

\* The store a process call that succeeds at once leaves when started on
\* store: the notes and tx records of the batch added, the notes of this
\* key that the batch nullifies removed.
StoreAfter(store, batch) ==
  [notes |-> {n \in store.notes \cup CreatedNotes(batch) :
                ~(n.publicKey = ThisKey /\ n.nullifier \in ListedNullifiers(batch.blocks))},
   txs |-> store.txs \cup CreatedTxs(batch)]

\* C11: whenever a process call returns successfully, at the first attempt
\* or as a re-submission of the batch after a failed persistence call, the
\* store is the one a first-attempt success leaves from the store the first
\* attempt started on, and the watermark is the number of the last block.
C11_RetrySafety ==
  [][Returns(1) =>
       /\ db' = StoreAfter(attempt.db, attempt.batch)
       /\ syncedToBlock' = Last(attempt.batch.blocks).number]_vars

\* A re-submitted batch is about to return: the first attempt failed in the
\* removal, after it had inserted notes and tx records, and the batch
\* nullifies a note that was stored before the first attempt.
C11_Witness ==
  /\ nCalls = 2
  /\ call[1].pc = "advance"
  /\ call[1].dbAtStart.txs # attempt.db.txs
  /\ call[1].dbAtStart.notes # attempt.db.notes
  /\ \E n \in OwnNotes(attempt.db) : n \notin db.notes
  /\ \E n \in OwnNotes(attempt.db) : n \in db.notes

====
